---- MODULE Spec2Model ----
(***************************************************************************)
(* Model of the notebook lab-chatbot-with-multi-query-retriever.ipynb:     *)
(* the per-chunk indexing loop, the construction of the MultiQueryRetriever*)
(* and the question-answering chain                                        *)
(*     chain = {context: retriever | _combine_documents,                   *)
(*              question: passthrough} | LLM_CONTEXT_PROMPT | llm.         *)
(*                                                                         *)
(* Text is modelled as a sequence of tokens.  The newline "\n" and the     *)
(* blank " " are tokens of their own, so that splitting, stripping and     *)
(* joining act on text exactly as the string operations do; a word, an     *)
(* enumeration marker ("1.", "-"), the rule "---" and the label            *)
(* "SOURCE: " are one token each.                                          *)
(***************************************************************************)
EXTENDS Integers, Sequences, FiniteSets, TLC

VARIABLES
    cell,         \* the notebook cell being executed
    docs,         \* the chunks produced by loader.load_and_split
    i,            \* enumerate() position of the indexing loop (0-based)
    index,        \* the documents held by the index "index_store"
    vectorstore,  \* the binding of the name vectorstore
    attempted,    \* the positions handed to ElasticsearchStore.from_documents
    printed,      \* the failure reports printed by the loop
    retriever,    \* the binding of the name retriever
    pc,           \* position of chain.invoke
    question,     \* the argument of chain.invoke
    llmText,      \* the text the llm returned for the query-generation prompt
    queries,      \* the queries handed to the vector-store retriever
    qi,           \* position in queries of the next search
    documents,    \* the list retrieve_documents accumulates
    aggregated,   \* the list the retriever returns (unique_union)
    context,      \* the string _combine_documents returns
    answer,       \* the text chain.invoke returns
    error,        \* the exception chain.invoke raises
    searchLog,    \* the searches issued by this request, in order
    llmCalls,     \* the llm invocations of this request, per stage
    llmMemo,      \* the llm as a function of the question (temperature 0)
    storeMemo,    \* the store's ranking as a function of the query
    history       \* the outcome of every finished chain.invoke

vars == <<cell, docs, i, index, vectorstore, attempted, printed, retriever,
          pc, question, llmText, queries, qi, documents, aggregated, context,
          answer, error, searchLog, llmCalls, llmMemo, storeMemo, history>>

indexVars == <<docs, i, index, vectorstore, attempted, printed>>
requestVars == <<pc, question, llmText, queries, qi, documents, aggregated,
                 context, answer, error, searchLog, llmCalls, llmMemo,
                 storeMemo, history>>

----------------------------------------------------------------------------
(* Bounds *)

MaxDocs == 3
MaxK == 2
MaxTextLen == 3
MaxParseLen == 4
MaxRequests == 2
MaxRuns == 2

----------------------------------------------------------------------------
(* Document chunks: page_content plus metadata (metadata_func copies name  *)
(* and the loader adds seq_num).  ChunkA2 has the content of ChunkA under  *)
(* other metadata.                                                         *)

ChunkA == [page_content |-> "contentA", metadata |-> [name |-> "A", seq_num |-> 1]]

ChunkB == [page_content |-> "contentB", metadata |-> [name |-> "B", seq_num |-> 2]]

ChunkA2 == [page_content |-> "contentA", metadata |-> [name |-> "A", seq_num |-> 3]]

Chunks == {ChunkA, ChunkB, ChunkA2}

SeqsUpTo(S, n) == UNION {[1..k -> S] : k \in 0..n}

----------------------------------------------------------------------------
(* Text helpers: Python's str.strip, str.split and str.join on tokens.     *)

NL == "\n"

Whitespace == {" ", NL}

RECURSIVE LStrip(_)
LStrip(s) ==
    IF s # <<>> /\ Head(s) \in Whitespace THEN LStrip(Tail(s)) ELSE s

RECURSIVE RStrip(_)
RStrip(s) ==
    IF s # <<>> /\ s[Len(s)] \in Whitespace
    THEN RStrip(SubSeq(s, 1, Len(s) - 1))
    ELSE s

Strip(s) == RStrip(LStrip(s))

\* s.split(sep): always at least one field; "".split(sep) is [""].
RECURSIVE Split(_, _)
Split(s, sep) ==
    IF \E k \in 1..Len(s) : s[k] = sep
    THEN LET k == CHOOSE k \in 1..Len(s) :
                     s[k] = sep /\ \A j \in 1..(k - 1) : s[j] # sep
         IN  <<SubSeq(s, 1, k - 1)>> \o Split(SubSeq(s, k + 1, Len(s)), sep)
    ELSE <<s>>

\* sep.join(parts)
RECURSIVE Join(_, _)
Join(sep, parts) ==
    IF parts = <<>> THEN <<>>
    ELSE IF Len(parts) = 1 THEN parts[1]
    ELSE parts[1] \o sep \o Join(sep, Tail(parts))

----------------------------------------------------------------------------
(* langchain's MultiQueryRetriever, as the notebook constructs it:         *)
(*     MultiQueryRetriever.from_llm(vectorstore.as_retriever(), llm)       *)

\* A parser that would keep the empty lines.
LineListParseKeepEmpty(text) == Split(Strip(text), NL)

\* LineListOutputParser.parse: text.strip().split("\n") with the empty
\* lines removed (filter(None, lines)).  Nothing else is removed from a
\* line: the notebook's log shows the queries '1. Can you provide ...',
\* '2. How does ...', '3. What are ...'.
LineListParse(text) ==
    SelectSeq(Split(Strip(text), NL), LAMBDA line : line # <<>>)

\* A retriever built with include_original=True.
IncludeOriginalAlways == TRUE

\* from_llm is called without include_original, whose default is False.
IncludeOriginal == FALSE

\* _get_relevant_documents: queries = generate_queries(question); the
\* original question is appended only when include_original is set.
QueriesFor(q, text) ==
    IF IncludeOriginal
    THEN Append(LineListParse(text), q)
    ELSE LineListParse(text)

\* retrieve_documents starts from documents = [].
NewDocuments(old) == <<>>

\* unique_union: [doc for i, doc in enumerate(documents)
\*                if doc not in documents[:i]]
\* Document equality compares page_content and metadata.
RECURSIVE UniqueFrom(_, _)
UniqueFrom(ds, k) ==
    IF k > Len(ds) THEN <<>>
    ELSE (IF \E j \in 1..(k - 1) : ds[j] = ds[k] THEN <<>> ELSE <<ds[k]>>)
         \o UniqueFrom(ds, k + 1)

\* A retriever that would return the documents as accumulated.
NoUniqueUnion(ds) == ds

\* A union that would keep the last occurrence of a document.
RECURSIVE UniqueKeepLast(_)
UniqueKeepLast(ds) ==
    IF ds = <<>> THEN <<>>
    ELSE (IF \E j \in 2..Len(ds) : ds[j] = ds[1] THEN <<>> ELSE <<ds[1]>>)
         \o UniqueKeepLast(Tail(ds))

Reverse(ds) == [k \in 1..Len(ds) |-> ds[Len(ds) + 1 - k]]

\* A union whose order would change from one call to the next.
UniqueUnordered(ds) ==
    IF history = <<>> THEN UniqueFrom(ds, 1) ELSE Reverse(UniqueFrom(ds, 1))

\* A union that would compare the documents by page_content alone.
RECURSIVE UniqueByContent(_)
UniqueByContent(ds) ==
    IF ds = <<>> THEN <<>>
    ELSE LET rest == UniqueByContent(SubSeq(ds, 1, Len(ds) - 1))
             last == ds[Len(ds)]
         IN  IF \E j \in 1..Len(rest) : rest[j].page_content = last.page_content
             THEN rest
             ELSE Append(rest, last)

UniqueUnion(ds) == UniqueFrom(ds, 1)

----------------------------------------------------------------------------
(* The notebook's prompt formatting.                                       *)

\* LLM_DOCUMENT_PROMPT: "\n---\nSOURCE: {name}\n{page_content}\n---\n"
FormatDocument(doc) ==
    <<NL, "---", NL, "SOURCE: ", doc.metadata.name, NL,
      doc.page_content, NL, "---", NL>>

\* A separator of one newline.
SingleNewline == <<NL>>

\* document_separator="\n\n"
DocumentSeparator == <<NL, NL>>

\* _combine_documents
CombineDocuments(ds) ==
    Join(DocumentSeparator, [k \in 1..Len(ds) |-> FormatDocument(ds[k])])

----------------------------------------------------------------------------
(* Values *)

Unbound == [bound |-> FALSE, call |-> -1]

NoAnswer == "<no answer>"

Answers == {"answer"}

NoError == "<no error>"

\* The exception of a failed llm call, and of a failed similarity search;
\* the chain wraps neither and lets it propagate to the caller.
GenerationError == "GenerationError"

RetrievalError == "RetrievalError"

Questions == {<<"va">>}

ResponseTokens == {NL, "1.", "va"}

Responses == SeqsUpTo(ResponseTokens, MaxTextLen)

ParseTokens == {NL, " ", "1.", "-", "va"}

ParseInputs == SeqsUpTo(ParseTokens, MaxParseLen)

DocLists == SeqsUpTo(Chunks, MaxDocs)

\* What a similarity search can return: at most k hits, each another
\* document of the index, in the store's order of relevance.
Rankings(n) ==
    {r \in SeqsUpTo(1..n, MaxK) : \A a, b \in 1..Len(r) : a # b => r[a] # r[b]}

ResultLists(idx) ==
    {[k \in 1..Len(r) |-> idx[r[k]]] : r \in Rankings(Len(idx))}

Extend(f, key, val) ==
    [x \in (DOMAIN f) \cup {key} |-> IF x = key THEN val ELSE f[x]]

----------------------------------------------------------------------------
(* The indexing cells.                                                     *)

\* An index reset that would leave the documents in place.
KeepIndex(old) == old

\* What the index holds once indices.delete has removed it: nothing.
IndexAfterDelete(old) == <<>>

\* es.indices.delete(index="index_store", ignore_unavailable=True)
DeleteIndex ==
    /\ cell = "split"
    /\ index' = IndexAfterDelete(index)
    /\ cell' = "index"
    /\ UNCHANGED <<docs, i, vectorstore, attempted, printed, retriever>>
    /\ UNCHANGED requestVars

\* One pass of "for i, doc in enumerate(docs)" whose from_documents([doc])
\* returns: the chunk is in the index and vectorstore names the new store.
IndexDocOk ==
    /\ cell = "index"
    /\ i < Len(docs)
    /\ attempted' = Append(attempted, i)
    /\ index' = Append(index, docs[i + 1])
    /\ vectorstore' = [bound |-> TRUE, call |-> i]
    /\ i' = i + 1
    /\ UNCHANGED <<cell, docs, printed, retriever>>
    /\ UNCHANGED requestVars

\* The failure report of the except branch: the position and the metadata.
Report(log, k, doc) == Append(log, [i |-> k, metadata |-> doc.metadata])

\* A loop that would end at the first pass that raised.
AbortLoop(k, n) == n

\* Where the loop goes after a pass that raised: on to the next chunk.
AfterFailure(k, n) == k + 1

\* A loop that would bind vectorstore to a store also when the call raised.
BindAnyway(old, k) == [bound |-> TRUE, call |-> k]

\* The binding of vectorstore after a call that raised: the assignment
\* "vectorstore = ..." did not happen.
BindingAfterFailure(old, k) == old

\* One pass whose from_documents([doc]) raises: "except Exception" prints
\* the report and the loop goes on; the assignment did not happen.
IndexDocFail ==
    /\ cell = "index"
    /\ i < Len(docs)
    /\ attempted' = Append(attempted, i)
    /\ printed' = Report(printed, i, docs[i + 1])
    /\ i' = AfterFailure(i, Len(docs))
    /\ vectorstore' = BindingAfterFailure(vectorstore, i)
    /\ UNCHANGED <<cell, docs, index, retriever>>
    /\ UNCHANGED requestVars

\* llm = OpenAI(...); retriever = MultiQueryRetriever.from_llm(
\*     vectorstore.as_retriever(), llm): a NameError when vectorstore was
\* never assigned.
ConstructRetriever ==
    /\ cell = "index"
    /\ i >= Len(docs)
    /\ IF vectorstore.bound
       THEN /\ retriever' = [bound |-> TRUE, include_original |-> IncludeOriginal]
            /\ cell' = "qa"
       ELSE /\ retriever' = retriever
            /\ cell' = "NameError"
    /\ UNCHANGED <<docs, i, index, vectorstore, attempted, printed>>
    /\ UNCHANGED requestVars

----------------------------------------------------------------------------
(* chain.invoke(question)                                                  *)

cellVars == <<cell, docs, i, index, vectorstore, attempted, printed, retriever>>

\* ans = chain.invoke(q): the retriever branch of _context starts.
Invoke ==
    /\ cell = "qa"
    /\ pc = "idle"
    /\ Len(history) < MaxRequests
    /\ \E q \in Questions : question' = q
    /\ pc' = "generate"
    /\ UNCHANGED <<llmText, queries, qi, documents, aggregated, context,
                   answer, error, searchLog, llmCalls, llmMemo, storeMemo,
                   history>>
    /\ UNCHANGED cellVars

\* generate_queries: one llm call; its text is parsed into the queries.
GenerateQueries ==
    /\ pc = "generate"
    /\ \E text \in Responses :
          /\ question \in DOMAIN llmMemo => text = llmMemo[question]
          /\ llmMemo' = Extend(llmMemo, question, text)
          /\ llmText' = text
          /\ queries' = QueriesFor(question, text)
    /\ llmCalls' = [llmCalls EXCEPT !.generate = @ + 1]
    /\ qi' = 1
    /\ documents' = NewDocuments(documents)
    /\ pc' = "search"
    /\ UNCHANGED <<question, aggregated, context, answer, error, searchLog,
                   storeMemo, history>>
    /\ UNCHANGED cellVars

\* A chain that would call the llm again after a failed call.
RetryGenerate == "generate"

\* Where the chain goes when the llm call of generate_queries raises.
AfterGenerateFailure == "failed"

\* The llm call of generate_queries raises: nothing catches it.
GenerateFails ==
    /\ pc = "generate"
    /\ llmCalls' = [llmCalls EXCEPT !.generate = @ + 1]
    /\ error' = GenerationError
    /\ pc' = AfterGenerateFailure
    /\ UNCHANGED <<question, llmText, queries, qi, documents, aggregated,
                   context, answer, searchLog, llmMemo, storeMemo, history>>
    /\ UNCHANGED cellVars

\* retrieve_documents, one query: docs = retriever.invoke(query);
\* documents.extend(docs).
Search ==
    /\ pc = "search"
    /\ qi <= Len(queries)
    /\ \E res \in ResultLists(index) :
          /\ queries[qi] \in DOMAIN storeMemo => res = storeMemo[queries[qi]]
          /\ storeMemo' = Extend(storeMemo, queries[qi], res)
          /\ documents' = documents \o res
          /\ searchLog' = Append(searchLog,
                                 [query |-> queries[qi], ok |-> TRUE, docs |-> res])
    /\ qi' = qi + 1
    /\ UNCHANGED <<pc, question, llmText, queries, aggregated, context, answer,
                   error, llmCalls, llmMemo, history>>
    /\ UNCHANGED cellVars

\* A retrieve_documents that would skip a query whose search raised.
SwallowSearchFailure == [pc |-> "search", error |-> NoError, qi |-> qi + 1]

\* Where retrieve_documents goes when retriever.invoke(query) raises.
AfterSearchFailure == [pc |-> "failed", error |-> RetrievalError, qi |-> qi]

\* retriever.invoke(query) raises: retrieve_documents has no handler, the
\* exception leaves the retriever and the chain.
SearchFails ==
    /\ pc = "search"
    /\ qi <= Len(queries)
    /\ searchLog' = Append(searchLog,
                           [query |-> queries[qi], ok |-> FALSE, docs |-> <<>>])
    /\ pc' = AfterSearchFailure.pc
    /\ error' = AfterSearchFailure.error
    /\ qi' = AfterSearchFailure.qi
    /\ UNCHANGED <<question, llmText, queries, documents, aggregated, context,
                   answer, llmCalls, llmMemo, storeMemo, history>>
    /\ UNCHANGED cellVars

\* return self.unique_union(documents), piped into _combine_documents.
Combine ==
    /\ pc = "search"
    /\ qi > Len(queries)
    /\ aggregated' = UniqueUnion(documents)
    /\ context' = CombineDocuments(UniqueUnion(documents))
    /\ pc' = "answer"
    /\ UNCHANGED <<question, llmText, queries, qi, documents, answer, error,
                   searchLog, llmCalls, llmMemo, storeMemo, history>>
    /\ UNCHANGED cellVars

\* LLM_CONTEXT_PROMPT | llm: the llm returns the answer.
Answer ==
    /\ pc = "answer"
    /\ \E a \in Answers : answer' = a
    /\ llmCalls' = [llmCalls EXCEPT !.answer = @ + 1]
    /\ pc' = "done"
    /\ UNCHANGED <<question, llmText, queries, qi, documents, aggregated,
                   context, error, searchLog, llmMemo, storeMemo, history>>
    /\ UNCHANGED cellVars

\* LLM_CONTEXT_PROMPT | llm: the llm call raises.
AnswerFails ==
    /\ pc = "answer"
    /\ llmCalls' = [llmCalls EXCEPT !.answer = @ + 1]
    /\ error' = GenerationError
    /\ pc' = "failed"
    /\ UNCHANGED <<question, llmText, queries, qi, documents, aggregated,
                   context, answer, searchLog, llmMemo, storeMemo, history>>
    /\ UNCHANGED cellVars

\* chain.invoke returns or raises: the caller sees the outcome, and the
\* locals of the call are gone.
Return ==
    /\ pc \in {"done", "failed"}
    /\ history' = Append(history,
                         [question |-> question, outcome |-> pc,
                          retrieved |-> (pc = "done" \/ llmCalls.answer > 0),
                          aggregated |-> aggregated, answer |-> answer,
                          error |-> error])
    /\ pc' = "idle"
    /\ question' = <<>>
    /\ llmText' = <<>>
    /\ queries' = <<>>
    /\ qi' = 1
    /\ aggregated' = <<>>
    /\ context' = <<>>
    /\ answer' = NoAnswer
    /\ error' = NoError
    /\ searchLog' = <<>>
    /\ llmCalls' = [generate |-> 0, answer |-> 0]
    /\ UNCHANGED <<documents, llmMemo, storeMemo>>
    /\ UNCHANGED cellVars

\* LineListOutputParser.parse applied to one response of the llm.
ParseResponse ==
    /\ cell = "parse"
    /\ pc = "generate"
    /\ queries' = QueriesFor(question, llmText)
    /\ pc' = "search"
    /\ UNCHANGED <<question, llmText, qi, documents, aggregated, context,
                   answer, error, searchLog, llmCalls, llmMemo, storeMemo,
                   history>>
    /\ UNCHANGED cellVars

----------------------------------------------------------------------------
(* Specifications *)

IdleRequest ==
    /\ pc = "idle"
    /\ question = <<>>
    /\ llmText = <<>>
    /\ queries = <<>>
    /\ qi = 1
    /\ documents = <<>>
    /\ aggregated = <<>>
    /\ context = <<>>
    /\ answer = NoAnswer
    /\ error = NoError
    /\ searchLog = <<>>
    /\ llmCalls = [generate |-> 0, answer |-> 0]
    /\ llmMemo = <<>>
    /\ storeMemo = <<>>
    /\ history = <<>>

\* The session once the indexing cells have run and every chunk of docs is
\* in the index: the question-answering cell is next.
Init ==
    /\ cell = "qa"
    /\ docs = <<ChunkA, ChunkB, ChunkA2>>
    /\ i = Len(docs)
    /\ index = docs
    /\ vectorstore = [bound |-> TRUE, call |-> Len(docs) - 1]
    /\ attempted = [k \in 1..Len(docs) |-> k - 1]
    /\ printed = <<>>
    /\ retriever = [bound |-> TRUE, include_original |-> IncludeOriginal]
    /\ IdleRequest

Next ==
    \/ Invoke
    \/ GenerateQueries
    \/ GenerateFails
    \/ Search
    \/ SearchFails
    \/ Combine
    \/ Answer
    \/ AnswerFails
    \/ Return

Spec == Init /\ [][Next]_vars

\* A fresh session before the index reset: any list of chunks, and an index
\* that holds whatever an earlier run left in it.
InitIndex ==
    /\ cell = "split"
    /\ docs \in DocLists
    /\ i = 0
    /\ index \in SeqsUpTo(Chunks, 1)
    /\ vectorstore = Unbound
    /\ attempted = <<>>
    /\ printed = <<>>
    /\ retriever = [bound |-> FALSE, include_original |-> FALSE]
    /\ IdleRequest

NextIndex ==
    \/ DeleteIndex
    \/ IndexDocOk
    \/ IndexDocFail
    \/ ConstructRetriever

SpecIndex == InitIndex /\ [][NextIndex]_vars

\* The output parser alone, on any response text of the llm.
InitParse ==
    /\ cell = "parse"
    /\ docs = <<>>
    /\ i = 0
    /\ index = <<>>
    /\ vectorstore = Unbound
    /\ attempted = <<>>
    /\ printed = <<>>
    /\ retriever = [bound |-> FALSE, include_original |-> FALSE]
    /\ pc = "generate"
    /\ question \in Questions
    /\ llmText \in ParseInputs
    /\ queries = <<>>
    /\ qi = 1
    /\ documents = <<>>
    /\ aggregated = <<>>
    /\ context = <<>>
    /\ answer = NoAnswer
    /\ error = NoError
    /\ searchLog = <<>>
    /\ llmCalls = [generate |-> 1, answer |-> 0]
    /\ llmMemo = <<>>
    /\ storeMemo = <<>>
    /\ history = <<>>

NextParse == ParseResponse

SpecParse == InitParse /\ [][NextParse]_vars

\* The whole session: a fresh kernel runs the index reset, the indexing
\* cell and then the question-answering cell, with any list of chunks.  The
\* llm answers the query-generation prompt with the one line "va".
InitSession ==
    /\ cell = "split"
    /\ docs \in DocLists
    /\ i = 0
    /\ index \in SeqsUpTo(Chunks, 1)
    /\ vectorstore = Unbound
    /\ attempted = <<>>
    /\ printed = <<>>
    /\ retriever = [bound |-> FALSE, include_original |-> FALSE]
    /\ pc = "idle"
    /\ question = <<>>
    /\ llmText = <<>>
    /\ queries = <<>>
    /\ qi = 1
    /\ documents = <<>>
    /\ aggregated = <<>>
    /\ context = <<>>
    /\ answer = NoAnswer
    /\ error = NoError
    /\ searchLog = <<>>
    /\ llmCalls = [generate |-> 0, answer |-> 0]
    /\ llmMemo = [q \in Questions |-> <<"va">>]
    /\ storeMemo = <<>>
    /\ history = <<>>

NextSession == NextIndex \/ Next

SpecSession == InitSession /\ [][NextSession]_vars

\* The indexing cell executed again without the index reset before it: the
\* loop starts over on the same docs, the names bound by the earlier run
\* stay bound.
RerunIndexCell ==
    /\ cell \in {"qa", "NameError"}
    /\ pc = "idle"
    /\ Len(attempted) < MaxRuns * Len(docs)
    /\ cell' = "index"
    /\ i' = 0
    /\ UNCHANGED <<docs, index, vectorstore, attempted, printed, retriever>>
    /\ UNCHANGED requestVars

NextRerun == NextIndex \/ RerunIndexCell

SpecRerun == InitIndex /\ [][NextRerun]_vars

----------------------------------------------------------------------------
(* Properties *)

\* The retriever has returned to the chain in this request.
Retrieved == pc \in {"answer", "done"} \/ (pc = "failed" /\ llmCalls.answer > 0)

\* The queries this request has sent to the store, in order.
Issued == [k \in 1..Len(searchLog) |-> searchLog[k].query]

RECURSIVE Flatten(_)
Flatten(ss) == IF ss = <<>> THEN <<>> ELSE Head(ss) \o Flatten(Tail(ss))

\* The per-query result lists of this request, concatenated in issue order.
Returned == Flatten([k \in 1..Len(searchLog) |-> searchLog[k].docs])

Elems(seq) == {seq[k] : k \in 1..Len(seq)}

Occurrences(seq, x) == Cardinality({k \in 1..Len(seq) : seq[k] = x})

FirstPos(seq, x) == CHOOSE k \in 1..Len(seq) :
                        seq[k] = x /\ \A j \in 1..(k - 1) : seq[j] # x

\* C1: whatever the per-query result lists are, the list the retriever
\* returns holds every chunk that some query returned, and holds it exactly
\* once, also when several queries returned it.
C1_EachChunkOnce ==
    Retrieved =>
        /\ Elems(aggregated) = Elems(Returned)
        /\ \A d \in Elems(Returned) : Occurrences(aggregated, d) = 1

\* C1 witness: two queries returned the same single chunk and the retriever
\* returned one chunk.
C1_Witness ==
    /\ Retrieved
    /\ Len(searchLog) = 2
    /\ Len(searchLog[1].docs) = 1
    /\ searchLog[1].docs = searchLog[2].docs
    /\ Len(aggregated) = 1

\* C2: the returned list is the concatenation of the per-query result lists
\* in issue order with every later duplicate removed: its chunks stand in
\* the order of their first occurrences in the concatenation, so a chunk
\* keeps the place of the first query that returned it and the store's
\* order within one result list is kept.
C2_FirstOccurrenceOrder ==
    Retrieved =>
        /\ Len(aggregated) = Cardinality(Elems(Returned))
        /\ \A a \in 1..Len(aggregated) : aggregated[a] \in Elems(Returned)
        /\ \A a, b \in 1..Len(aggregated) :
              a < b => FirstPos(Returned, aggregated[a])
                         < FirstPos(Returned, aggregated[b])

\* C2 witness: the second query returned, ahead of a new chunk, the chunk
\* the first query had ranked second; it stays second in the returned list.
C2_Witness ==
    /\ Retrieved
    /\ Len(searchLog) = 2
    /\ Len(searchLog[1].docs) = 2
    /\ Len(searchLog[2].docs) = 2
    /\ searchLog[2].docs[1] = searchLog[1].docs[2]
    /\ searchLog[2].docs[2] \notin Elems(searchLog[1].docs)
    /\ aggregated = searchLog[1].docs \o <<searchLog[2].docs[2]>>

C4_TotalFailure ==
    /\ (searchLog # <<>> /\ \A k \in 1..Len(searchLog) : ~searchLog[k].ok)
          => /\ pc = "failed"
             /\ error = RetrievalError
             /\ answer = NoAnswer
             /\ llmCalls.answer = 0
    /\ \A h \in 1..Len(history) :
          history[h].error = RetrievalError
              => /\ history[h].outcome = "failed"
                 /\ history[h].answer = NoAnswer
                 /\ ~history[h].retrieved

\* C4 witness: the only search issued raised, and the caller has seen the
\* request fail.
C4_Witness ==
    /\ Len(history) = 1
    /\ history[1].error = RetrievalError
    /\ pc = "idle"

\* C5 as stated: the queries sent to the store are the original question,
\* first, and then every generated variant (looked at where the llm did
\* generate variants).
C5_OriginalIssuedFirst ==
    (Retrieved /\ LineListParse(llmText) # <<>>)
        => Issued = <<question>> \o LineListParse(llmText)

\* C5 amended: the queries sent to the store are the generated variants, all
\* of them, in generation order, and nothing else (the original question is
\* not added to them); every chunk returned by the retriever was returned
\* for a variant.
C5_OnlyVariantsIssued ==
    /\ pc \in {"search", "failed"}
          => /\ Len(Issued) <= Len(LineListParse(llmText))
             /\ Issued = SubSeq(LineListParse(llmText), 1, Len(Issued))
    /\ Retrieved
          => /\ Issued = LineListParse(llmText)
             /\ Elems(aggregated) \subseteq Elems(Returned)

\* C5 witness: two variants were generated and searched, neither of them
\* the original question, and the retriever returned chunks.
C5_Witness ==
    /\ Retrieved
    /\ Len(Issued) = 2
    /\ question \notin Elems(Issued)
    /\ aggregated # <<>>

\* The names on the SOURCE lines of a context string, in order.
RECURSIVE Labels(_)
Labels(ctx) ==
    IF Len(ctx) < 2 THEN <<>>
    ELSE (IF Head(ctx) = "SOURCE: " THEN <<ctx[2]>> ELSE <<>>)
         \o Labels(Tail(ctx))

\* The context string C6 states for two chunks: three newlines between the
\* closing rule of the first block and the opening rule of the second.
ClaimedContext(a, b) ==
    <<NL, "---", NL, "SOURCE: ", a.metadata.name, NL, a.page_content, NL,
      "---", NL, NL, NL, "---", NL, "SOURCE: ", b.metadata.name, NL,
      b.page_content, NL, "---", NL>>

\* The same with four newlines there: the newline ending the first block,
\* the two of the separator, the newline opening the second block.
ActualContext(a, b) ==
    <<NL, "---", NL, "SOURCE: ", a.metadata.name, NL, a.page_content, NL,
      "---", NL, NL, NL, NL, "---", NL, "SOURCE: ", b.metadata.name, NL,
      b.page_content, NL, "---", NL>>

\* C6 as stated: for two chunks the context is
\* "\n---\nSOURCE: A\n<contentA>\n---\n\n\n---\nSOURCE: B\n<contentB>\n---\n".
C6_ClaimedContext ==
    (Retrieved /\ Len(aggregated) = 2)
        => context = ClaimedContext(aggregated[1], aggregated[2])

\* C6 amended: for two chunks the context is
\* "\n---\nSOURCE: A\n<contentA>\n---\n\n\n\n---\nSOURCE: B\n<contentB>\n---\n";
\* in general it holds one SOURCE block per returned chunk, in the order of
\* the returned list, the blocks of ten tokens joined by the two-newline
\* separator.
C6_ActualContext ==
    Retrieved =>
        /\ Len(aggregated) = 2
              => context = ActualContext(aggregated[1], aggregated[2])
        /\ Labels(context)
              = [k \in 1..Len(aggregated) |-> aggregated[k].metadata.name]
        /\ Len(context) = IF aggregated = <<>> THEN 0
                          ELSE 12 * Len(aggregated) - 2

\* C6 witness: the retriever returned the chunk named A and then the chunk
\* named B, and the context has been built from them.
C6_Witness ==
    /\ Retrieved
    /\ aggregated = <<ChunkA, ChunkB>>
    /\ context # <<>>

C8_NoRetry ==
    /\ llmCalls.generate <= 1
    /\ llmCalls.answer <= 1
    /\ (pc # "generate" /\ error = GenerationError)
          => /\ pc = "failed"
             /\ answer = NoAnswer
    /\ (error = GenerationError /\ llmCalls.answer = 0)
          => /\ queries = <<>>
             /\ searchLog = <<>>
             /\ llmText = <<>>
    /\ \A h \in 1..Len(history) :
          history[h].error = GenerationError
              => /\ history[h].outcome = "failed"
                 /\ history[h].answer = NoAnswer

\* C8 witness: a first request failed in the query generation, and in the
\* second the answering call has failed after a search that returned chunks.
C8_Witness ==
    /\ Len(history) = 1
    /\ history[1].error = GenerationError
    /\ ~history[1].retrieved
    /\ pc = "failed"
    /\ error = GenerationError
    /\ llmCalls = [generate |-> 1, answer |-> 1]
    /\ aggregated # <<>>

\* C9: the indexing loop attempts every chunk once, in list order, whatever
\* fails: at every moment the positions attempted are 0 .. i-1, when the
\* loop is over they are all the positions of the list, and every attempt
\* that did not add its chunk to the index was reported with its position
\* and the metadata of its chunk, in order.
C9_LoopNeverAborts ==
    cell # "split" =>
        /\ attempted = [k \in 1..i |-> k - 1]
        /\ i <= Len(docs)
        /\ cell \in {"qa", "NameError"} => i = Len(docs)
        /\ Len(index) + Len(printed) = Len(attempted)
        /\ \A k \in 1..Len(printed) :
              /\ printed[k].i \in Elems(attempted)
              /\ printed[k].metadata = docs[printed[k].i + 1].metadata
        /\ \A a, b \in 1..Len(printed) : a < b => printed[a].i < printed[b].i
        /\ \A k \in 1..Len(index) : index[k] \in Elems(docs)

\* C9 witness: of three chunks the first failed and was reported, the second
\* was indexed, the third failed, and the loop is over.
C9_Witness ==
    /\ cell = "NameError" \/ cell = "qa"
    /\ Len(docs) = 3
    /\ Len(printed) = 2
    /\ printed[1].i = 0
    /\ printed[2].i = 2
    /\ index = <<docs[2]>>

Markers == {"1.", "-"}

\* C10 as stated: every query is trimmed, is not empty and does not start
\* with an enumeration marker.
C10_MarkersStripped ==
    pc = "search" =>
        \A k \in 1..Len(queries) :
            /\ queries[k] # <<>>
            /\ queries[k] = Strip(queries[k])
            /\ Head(queries[k]) \notin Markers

\* C10 amended: the queries are the lines of the response, stripped as a
\* whole of the white space around it, with the empty lines left out and
\* nothing else removed: no query is empty or holds a newline, together
\* they are the stripped response without its newlines (markers and inner
\* blanks included), and there is one query per run of tokens between
\* newlines.
C10_NonEmptyLinesVerbatim ==
    pc = "search" =>
        LET t == Strip(llmText) IN
        /\ \A k \in 1..Len(queries) :
              queries[k] # <<>> /\ NL \notin Elems(queries[k])
        /\ Flatten(queries) = SelectSeq(t, LAMBDA x : x # NL)
        /\ Len(queries) = Cardinality({k \in 1..Len(t) :
                              t[k] # NL /\ (k = 1 \/ t[k - 1] = NL)})

\* C10 witness: a response of two lines whose first line starts with the
\* marker "1." and ends with a blank: both are in the first query.
C10_Witness ==
    /\ pc = "search"
    /\ Len(queries) = 2
    /\ Head(queries[1]) \in Markers
    /\ queries[1][Len(queries[1])] = " "

\* C11 as stated: the union compares chunks by their content alone, so no
\* two chunks of the returned list have the same content.
C11_ContentOnly ==
    Retrieved =>
        \A a, b \in 1..Len(aggregated) :
            a # b => aggregated[a].page_content # aggregated[b].page_content

\* C11 amended: the union compares whole documents, content and metadata:
\* two returned chunks with the same content and different metadata are
\* both in the returned list, each under its own metadata, and two entries
\* of the list with the same content differ in their metadata.
C11_ContentAndMetadata ==
    Retrieved =>
        /\ \A d, e \in Elems(Returned) :
              (d.page_content = e.page_content /\ d.metadata # e.metadata)
                  => d \in Elems(aggregated) /\ e \in Elems(aggregated)
        /\ \A a, b \in 1..Len(aggregated) :
              (a # b /\ aggregated[a].page_content = aggregated[b].page_content)
                  => aggregated[a].metadata # aggregated[b].metadata

\* C11 witness: one query returned ChunkA, the next ChunkA2 (the same
\* content under other metadata), and the returned list holds both.
C11_Witness ==
    /\ Retrieved
    /\ Len(searchLog) = 2
    /\ searchLog[1].docs = <<ChunkA>>
    /\ searchLog[2].docs = <<ChunkA2>>
    /\ aggregated = <<ChunkA, ChunkA2>>

\* The positions whose indexing call returned, in a first run of the loop.
Succeeded ==
    {k \in Elems(attempted) : \A p \in 1..Len(printed) : printed[p].i # k}

Max(S) == CHOOSE m \in S : \A x \in S : x <= m

\* C13: in a fresh session the name vectorstore is bound to the store the
\* last successful indexing call returned, a failed call leaving it as it
\* was; with no successful call it stays unbound, the retriever is then
\* never constructed and no request is started, let alone answered; a
\* request is only ever served with the retriever built on a bound store.
C13_StoreOfLastSuccess ==
    cell # "split" =>
        /\ Succeeded = {} => vectorstore = Unbound
        /\ Succeeded # {}
              => vectorstore = [bound |-> TRUE, call |-> Max(Succeeded)]
        /\ retriever.bound => (vectorstore.bound /\ cell = "qa")
        /\ cell = "qa" => (retriever.bound /\ Succeeded # {})
        /\ cell = "NameError" => (Succeeded = {} /\ ~retriever.bound)
        /\ ~retriever.bound
              => /\ pc = "idle"
                 /\ history = <<>>
                 /\ searchLog = <<>>
                 /\ answer = NoAnswer
        /\ (pc # "idle" \/ history # <<>>) => vectorstore.bound

\* C13 witness: of three chunks the second was the last one indexed, the
\* third failed; vectorstore is still the store of the second call, and a
\* question has been answered over it.
C13_Witness ==
    /\ cell = "qa"
    /\ Len(docs) = 3
    /\ Succeeded = {0, 1}
    /\ vectorstore.call = 1
    /\ Len(history) = 1
    /\ history[1].outcome = "done"

\* The chunks of the attempts that were not reported, in attempt order.
IndexedBy(att, rep) ==
    Flatten([n \in 1..Len(att) |->
               IF \E p \in 1..Len(rep) : rep[p].i = att[n]
               THEN <<>>
               ELSE <<docs[att[n] + 1]>>])

Attempts(c) == Cardinality({n \in 1..Len(attempted) : docs[attempted[n] + 1] = c})

Reports(c) == Cardinality({p \in 1..Len(printed) : docs[printed[p].i + 1] = c})

\* C14: whatever the index held before, after the reset and one run of the
\* loop it holds the chunks whose call succeeded, one copy for each such
\* call, in order, and no chunk whose call failed; once the loop runs
\* again without the reset the index holds one copy per successful call of
\* either run, so a chunk that succeeded in every run is there twice or
\* more.
C14_ResetThenOneCopy ==
    cell # "split" =>
        /\ Len(attempted) <= Len(docs)
              => index = IndexedBy(attempted, printed)
        /\ \A c \in Chunks : Occurrences(index, c) = Attempts(c) - Reports(c)
        /\ Len(attempted) > Len(docs) + i
              => \A k \in 0..(i - 1) :
                    (\A p \in 1..Len(printed) : printed[p].i # k)
                        => Occurrences(index, docs[k + 1]) >= 2

\* C14 witness: two different chunks, the loop has run twice without a
\* reset in between; the first chunk succeeded both times and is in the
\* index twice, the second succeeded once and is there once.
C14_Witness ==
    /\ Len(docs) = 2
    /\ docs[1] # docs[2]
    /\ Len(attempted) = 4
    /\ Occurrences(index, docs[1]) = 2
    /\ Occurrences(index, docs[2]) = 1
    /\ Len(printed) = 1

====
